---- MODULE Spec2Model ----
(***************************************************************************)
(* Model of PROJECT.c: the boot sequence of main, the handshake            *)
(* perform_key_exchange (with verify_peer_public_key, sign_message and     *)
(* derive_shared_secret) and the messaging loop of main.                   *)
(*                                                                         *)
(* The program is sequential and blocking; every device has a program      *)
(* counter pc[d], and one action is one blocking call of the source (a     *)
(* transport call, a secure-element call, a crypto call, a console read)   *)
(* together with the test of its result.  The secure element, wolfCrypt,   *)
(* the HAL and the random number generator are outside the repository:     *)
(* they are modelled as ideal primitives that the environment may make     *)
(* fail (variable faults).                                                 *)
(*                                                                         *)
(* Two compositions are checked:                                           *)
(*   Spec     device 1 against an arbitrary peer (the environment), with   *)
(*            transport, crypto and secure-element failures;               *)
(*   SymSpec  devices 1 and 2 both running this program against each       *)
(*            other over a lossless, in-order, buffered link, no failures. *)
(***************************************************************************)
EXTENDS Integers, Sequences, FiniteSets, TLC

(***************************************************************************)
(* Program constants                                                       *)
(***************************************************************************)
PUB_KEY_SIZE == 64
AES_KEY_SIZE == 16
AES_IV_SIZE == 12
AES_TAG_SIZE == 16
SIGNATURE_SIZE == 64
RX_BUFFER_SIZE == 128
CHALLENGE_SIZE == 32
MAX_RETRIES == 3

(***************************************************************************)
(* Bounds of the model                                                     *)
(***************************************************************************)
\* values the random number generator can return
NRand == 2
\* console reads (calls of receive_user_input) per boot
MaxInputs == 2

Dev == {1, 2}
Peer(d) == 3 - d

\* private keys: the n-th key pair generated in the secure element of device
\* d (every atcab_genkey makes a new one), the key of the honest remote peer
\* of Spec, a key held by somebody else, and the key nobody holds
DeviceKey(d, n) == << d, n >>
PeerKey == << 0, 1 >>
OtherKey == << 0, 2 >>
NoKey == << 0, 0 >>

Rand == 1 .. NRand
\* what the k-th draw of a buffer from the generator can be: values are named
\* in the order in which they first come out, so the k-th draw is one of the
\* first k values (it repeats an earlier draw or it is new)
Draws(k) == {r \in Rand : r <= k}
\* the lengths of the lines typed at the console, the terminator not
\* counted: an empty line, one character, and the two lengths around what
\* one receive_user_input takes (RX_BUFFER_SIZE - 1 characters)
TypedLens == {0, 1, RX_BUFFER_SIZE - 1, RX_BUFFER_SIZE}
\* the lines typed at the console
Texts == {1}

(***************************************************************************)
(* Byte strings.  A value is a record whose field t names what the bytes   *)
(* are.  The link carries 32-byte blocks: a 64-byte field travels as its   *)
(* two halves, a challenge as one block.                                   *)
(***************************************************************************)
Zero == [t |-> "zero"]
Junk == [t |-> "junk"]
\* n bytes of data identified by a (a challenge, a nonce)
Data(kind, a, n) == [t |-> kind, a |-> a, n |-> n]
\* the n characters of typed line a from its character number off on
Line(a, off, n) == [t |-> "text", a |-> a, off |-> off, n |-> n]
\* the console: rem characters of line a, from character off on, and the
\* terminator of the line are still to be read; NoLine: nothing is
Typed(a, off, rem) == [a |-> a, off |-> off, rem |-> rem]
NoLine == Typed(0, 0, -1)
Chal(r) == Data("chal", r, CHALLENGE_SIZE)
\* the challenge of the honest remote peer of Spec, and one made by somebody else
PeerChallenge == Chal(-1)
OtherChallenge == Chal(0)
\* the public key atcab_genkey returns for private key k
Pub(k) == [t |-> "pub", k |-> k]
\* the private key a 64-byte value is the public key of
PrivOf(pk) == IF pk.t = "pub" THEN pk.k ELSE NoKey

\* wc_InitSha256 / wc_Sha256Update / wc_Sha256Final over msg
Sha256(msg) == [t |-> "sha256", m |-> msg]
\* atcab_sign(slot holding k, hash): an ideal signature
Sign(k, hash) == [t |-> "sig", k |-> k, h |-> hash]
\* wc_ecc_verify_hash: verify_res = 1 exactly for a signature made over this
\* hash with the private key of this public key
VerifyHash(sig, hash, pk) ==
    /\ sig.t = "sig"
    /\ pk.t = "pub"
    /\ sig.k = pk.k
    /\ sig.h = hash
\* atcab_ecdh(slot holding k, peer public key): the shared point depends on
\* the two private keys only, whichever side computes it
Ecdh(k, pk) == [t |-> "dh", ks |-> {k, PrivOf(pk)}]
\* memcpy(aes_key, hash, AES_KEY_SIZE): the first 16 bytes of a hash
First16(hash) == [t |-> "key16", h |-> hash]
\* wc_AesGcmEncrypt(key, iv, plaintext): ciphertext (as long as the
\* plaintext) and tag
GcmCipher(key, nonce, pt) == [t |-> "gcm", key |-> key, iv |-> nonce, pt |-> pt]
GcmTag(key, nonce, pt) == [t |-> "gcmtag", key |-> key, iv |-> nonce, pt |-> pt]

\* the 32-byte blocks a field of n bytes travels as; a field that is no
\* whole number of blocks (the fields of a message frame) travels as one odd
\* run of bytes, which no receive of the handshake can take for a field
Blocks(v, n) ==
    IF n % 32 = 0
    THEN [i \in 1 .. (n \div 32) |-> [v |-> v, part |-> i, of |-> n \div 32]]
    ELSE << [v |-> v, part |-> 1, of |-> 0] >>
\* the n bytes read from blocks bs: the field they are the blocks of, and
\* bytes that are no public key and no signature otherwise
Assemble(bs, n) ==
    IF /\ Len(bs) = n \div 32
       /\ \A i \in 1 .. Len(bs) : bs[i].part = i /\ bs[i].of = Len(bs) /\ bs[i].v = bs[1].v
    THEN bs[1].v
    ELSE Junk

(***************************************************************************)
(* State                                                                   *)
(***************************************************************************)
VARIABLES
    pc,              \* where each device's main is
    retries,         \* main's retries
    status,          \* what perform_key_exchange returned ("none" while it runs)
    priv,            \* the private key in DEVICE_KEY_SLOT of the secure element
    device_pubkey,
    peer_pubkey,
    aes_key,
    rx_buffer,
    iv,
    challenge,
    peer_challenge,
    peer_signature,  \* verify_peer_public_key's peer_signature
    signature,       \* perform_key_exchange's and main's signature
    len,             \* main's len
    encrypted,       \* main's encrypted
    tag,             \* main's tag
    wire,            \* wire[d]: the blocks sent to device d and not yet read
    trace,           \* trace[d]: the calls device d has made, in order
    altered,         \* Spec: the handshake fields of the run in progress that
                     \* were changed between the honest peer and device 1
    irq,             \* whether interrupts are enabled (PRIMASK clear)
    honest,          \* Spec: what the honest peer sent for the field device 1
                     \* reads next
    faults,          \* whether calls of the HAL, wolfCrypt and the secure
                     \* element may fail and the link may lose, alter or
                     \* insert bytes
    console          \* console[d]: the characters typed at the console of
                     \* device d (huart1) that receive_user_input has not
                     \* read yet, the line terminator after them

vars == << pc, retries, status, priv, device_pubkey, peer_pubkey, aes_key,
           rx_buffer, iv, challenge, peer_challenge, peer_signature, signature,
           len, encrypted, tag, wire, trace, irq, altered, faults, honest,
           console >>

mem == << device_pubkey, peer_pubkey, aes_key, rx_buffer, iv, challenge,
          peer_challenge, peer_signature, signature, len, encrypted, tag >>

\* the results a call can have: it may fail only where faults are allowed
Results == IF faults THEN {TRUE, FALSE} ELSE {TRUE}

\* one call: what was called, whether it succeeded, the bytes it moved over
\* the link and the value it was about
Event(op, ok, n, v) == [op |-> op, ok |-> ok, n |-> n, v |-> v]
Log(d, es) == trace' = [trace EXCEPT ![d] = @ \o es]
Count(d, op) == Cardinality({i \in DOMAIN trace[d] : trace[d][i].op = op})
\* the calls of perform_key_exchange, in the order of its source text, and
\* the bytes each moves over the link
HsOrder == << "tx_pub", "rx_pub", "rng_chal", "tx_chal", "rx_sig", "verify",
              "rx_chal", "sign", "tx_sig", "ecdh" >>
HsBytes == << PUB_KEY_SIZE, PUB_KEY_SIZE, 0, CHALLENGE_SIZE, SIGNATURE_SIZE, 0,
              CHALLENGE_SIZE, 0, SIGNATURE_SIZE, 0 >>
HsOps == {HsOrder[i] : i \in DOMAIN HsOrder}
\* the trace keeps the calls of the current handshake run and everything
\* outside the runs; of a run that has returned it keeps the entry and
\* whether it returned ATCA_SUCCESS
RECURSIVE Fold(_)
Fold(es) ==
    IF es = << >> THEN << >>
    ELSE IF Head(es).op \in HsOps
         THEN Fold(Tail(es))
         ELSE IF Head(es).op = "kx_end"
              THEN << [Head(es) EXCEPT !.v = Zero] >> \o Fold(Tail(es))
              ELSE << Head(es) >> \o Fold(Tail(es))

\* static storage is zero-initialised; nothing runs on an absent device
InitMem ==
    /\ retries = [d \in Dev |-> 0]
    /\ status = [d \in Dev |-> "none"]
    /\ priv = [d \in Dev |-> NoKey]
    /\ device_pubkey = [d \in Dev |-> Zero]
    /\ peer_pubkey = [d \in Dev |-> Zero]
    /\ aes_key = [d \in Dev |-> Zero]
    /\ rx_buffer = [d \in Dev |-> Zero]
    /\ iv = [d \in Dev |-> Zero]
    /\ challenge = [d \in Dev |-> Zero]
    /\ peer_challenge = [d \in Dev |-> Zero]
    /\ peer_signature = [d \in Dev |-> Zero]
    /\ signature = [d \in Dev |-> Zero]
    /\ len = [d \in Dev |-> 0]
    /\ encrypted = [d \in Dev |-> Zero]
    /\ tag = [d \in Dev |-> Zero]
    /\ wire = [d \in Dev |-> << >>]
    /\ trace = [d \in Dev |-> << >>]
    /\ irq = [d \in Dev |-> TRUE]
    /\ altered = {}
    /\ honest = Zero
    /\ console = [d \in Dev |-> NoLine]

Init ==
    /\ pc = [d \in Dev |-> IF d = 1 THEN "init" ELSE "absent"]
    /\ faults = TRUE
    /\ InitMem

SymInit ==
    /\ pc = [d \in Dev |-> "init"]
    /\ faults = FALSE
    /\ InitMem

Goto(d, label) == pc' = [pc EXCEPT ![d] = label]

(***************************************************************************)
(* Error_Handler: __disable_irq(); while (1) {}.  It never returns, so the *)
(* statement after the call (cont) is never reached.                       *)
(***************************************************************************)
Error_Handler_Returns(d, cont) ==
    /\ irq' = [irq EXCEPT ![d] = FALSE]
    /\ Goto(d, cont)

Error_Handler(d, cont) ==
    /\ irq' = [irq EXCEPT ![d] = FALSE]
    /\ Goto(d, "halted")

\* if (!ok) Error_Handler(); and then the statement at label
OrHalt(d, ok, label) ==
    IF ok THEN Goto(d, label) /\ UNCHANGED irq
          ELSE Error_Handler(d, label)

(***************************************************************************)
(* Transport: send_data and receive_data over huart2                       *)
(***************************************************************************)
\* HAL_UART_Transmit of the n bytes v: on HAL_OK the bytes are on the link
Transmit(d, v, n, ok) ==
    wire' = IF ok /\ pc[Peer(d)] # "absent"
            THEN [wire EXCEPT ![Peer(d)] = @ \o Blocks(v, n)]
            ELSE wire

RxReady(d, n) == Len(wire[d]) >= n \div 32
RxValue(d, n) == Assemble(SubSeq(wire[d], 1, n \div 32), n)
RxRest(d, n) == SubSeq(wire[d], n \div 32 + 1, Len(wire[d]))
\* the buffer after a receive that timed out: the bytes that did arrive
\* were stored over the start of it
RxPartial(d, old) == IF wire[d] = << >> THEN old ELSE Junk

RxPcs == {"kx_rx_pub", "kx_rx_sig", "kx_rx_chal"}
RxNeed(label) == IF label = "kx_rx_chal" THEN CHALLENGE_SIZE ELSE PUB_KEY_SIZE
\* device d waits in a receive for bytes that are not there
Waiting(d) == pc[d] \in RxPcs /\ ~RxReady(d, RxNeed(pc[d]))
\* COMM_TIMEOUT_MS passes in a receive.  Between two devices on a lossless
\* link the timeout is taken to be long enough never to expire while the
\* peer can still get to a send: it expires when the peer is itself waiting
\* or has stopped.
TimeoutAllowed(d) ==
    \/ faults
    \/ pc[Peer(d)] = "halted"
    \/ Waiting(Peer(d))
\* HAL_UART_Receive returns something else than HAL_OK: the bytes are not
\* there in time, or the HAL reports an error
RxFails(d, n) == IF RxReady(d, n) THEN faults ELSE TimeoutAllowed(d)
\* Spec: the fields of the run that reached device 1 changed, with field f
\* read as v
Mark(d, f, v) ==
    IF pc[Peer(d)] = "absent" /\ v # honest THEN altered \cup {f} ELSE altered

(***************************************************************************)
(* main: bring-up                                                          *)
(***************************************************************************)
\* if (atcab_init(&cfg_atecc608b_i2c) != ATCA_SUCCESS) Error_Handler();
AtcabInit(d) ==
    /\ pc[d] = "init"
    /\ \E ok \in Results :
        /\ OrHalt(d, ok, "genkey")
        /\ Log(d, << Event("atcab_init", ok, 0, Zero) >>)
    /\ UNCHANGED << retries, status, priv, mem, wire, altered, faults, console, honest >>

\* if (generate_and_store_keypair() != ATCA_SUCCESS) Error_Handler();
\* int retries = 0;
\* checked: whether the result of generate_and_store_keypair is tested
GenerateKeypairThen(d, checked) ==
    /\ pc[d] = "genkey"
    /\ \E ok \in Results :
      LET k == DeviceKey(d, Count(d, "genkey") + 1) IN
        /\ OrHalt(d, ok \/ ~checked, "kx_tx_pub")
        /\ priv' = IF ok THEN [priv EXCEPT ![d] = k] ELSE priv
        /\ device_pubkey' = IF ok THEN [device_pubkey EXCEPT ![d] = Pub(k)]
                            ELSE device_pubkey
        /\ Log(d, << Event("genkey", ok, 0, IF ok THEN Pub(k) ELSE Zero) >>)
    /\ retries' = [retries EXCEPT ![d] = 0]
    /\ UNCHANGED << status, peer_pubkey, aes_key, rx_buffer, iv, challenge,
                    peer_challenge, peer_signature, signature, len, encrypted,
                    tag, wire, altered, faults, console, honest >>

\* generate_and_store_keypair(); with no test of what it returns
GenerateAndStoreKeypair_Unchecked(d) == GenerateKeypairThen(d, FALSE)

GenerateAndStoreKeypair(d) == GenerateKeypairThen(d, TRUE)

(***************************************************************************)
(* perform_key_exchange                                                    *)
(***************************************************************************)
\* perform_key_exchange returns code after the calls es
Return(d, es, code) ==
    /\ status' = [status EXCEPT ![d] = code]
    /\ Goto(d, "kx_ret")
    /\ Log(d, es \o << Event("kx_end", code = "ATCA_SUCCESS", 0, [status |-> code]) >>)

\* perform_key_exchange is entered: its first call is in es
Enter(d, es) == [trace EXCEPT ![d] = Fold(@) \o << Event("kx_begin", TRUE, 0, Zero) >> \o es]

\* the run goes on with the statement at label after the calls es
Continue(d, es, label) ==
    /\ Goto(d, label)
    /\ Log(d, es)
    /\ UNCHANGED status

\* if (send_data(device_pubkey, PUB_KEY_SIZE) != ATCA_SUCCESS) return ATCA_TX_FAIL;
KxSendPubkey(d) ==
    /\ pc[d] = "kx_tx_pub"
    /\ \E ok \in Results :
        LET code == IF ok THEN "none" ELSE "ATCA_TX_FAIL"
            es == << Event("tx_pub", ok, PUB_KEY_SIZE, device_pubkey[d]) >>
        IN  /\ Transmit(d, device_pubkey[d], PUB_KEY_SIZE, ok)
            /\ status' = [status EXCEPT ![d] = code]
            /\ Goto(d, IF ok THEN "kx_rx_pub" ELSE "kx_ret")
            /\ trace' = Enter(d, IF ok THEN es
                                 ELSE es \o << Event("kx_end", FALSE, 0, [status |-> code]) >>)
    /\ UNCHANGED << retries, priv, mem, altered, faults, console, honest, irq >>

\* if (receive_data(peer_pubkey, PUB_KEY_SIZE) != ATCA_SUCCESS) return ATCA_RX_FAIL;
KxReceivePubkey(d) ==
    /\ pc[d] = "kx_rx_pub"
    /\ \/ /\ RxReady(d, PUB_KEY_SIZE)
          /\ peer_pubkey' = [peer_pubkey EXCEPT ![d] = RxValue(d, PUB_KEY_SIZE)]
          /\ wire' = [wire EXCEPT ![d] = RxRest(d, PUB_KEY_SIZE)]
          /\ Continue(d, << Event("rx_pub", TRUE, PUB_KEY_SIZE, RxValue(d, PUB_KEY_SIZE)) >>,
                      "kx_rng")
          /\ altered' = Mark(d, "pub", RxValue(d, PUB_KEY_SIZE))
       \/ /\ RxFails(d, PUB_KEY_SIZE)
          /\ UNCHANGED altered
          /\ peer_pubkey' = [peer_pubkey EXCEPT ![d] = RxPartial(d, @)]
          /\ wire' = [wire EXCEPT ![d] = << >>]
          /\ Return(d, << Event("rx_pub", FALSE, PUB_KEY_SIZE, Zero) >>, "ATCA_RX_FAIL")
    /\ UNCHANGED << retries, priv, device_pubkey, aes_key, rx_buffer, iv,
                    challenge, peer_challenge, peer_signature, signature, len,
                    encrypted, tag, faults, console, honest, irq >>

\* generate_random(challenge, CHALLENGE_SIZE);
\* stores: whether the bytes drawn are stored in challenge
DrawChallenge(d, stores) ==
    /\ pc[d] = "kx_rng"
    /\ \E r \in Draws(Count(d, "kx_begin")) :
        /\ challenge' = IF stores THEN [challenge EXCEPT ![d] = Chal(r)] ELSE challenge
        /\ Continue(d, << Event("rng_chal", TRUE, 0, Chal(r)) >>, "kx_tx_chal")
    /\ UNCHANGED << retries, priv, device_pubkey, peer_pubkey, aes_key, rx_buffer,
                    iv, peer_challenge, peer_signature, signature, len, encrypted,
                    tag, wire, altered, faults, console, honest, irq >>

\* the bytes drawn go to another buffer: challenge keeps its value
KxGenerateChallenge_NotStored(d) == DrawChallenge(d, FALSE)

KxGenerateChallenge(d) == DrawChallenge(d, TRUE)

\* if (send_data(challenge, CHALLENGE_SIZE) != ATCA_SUCCESS) return ATCA_TX_FAIL;
KxSendChallenge(d) ==
    /\ pc[d] = "kx_tx_chal"
    /\ \E ok \in Results :
        LET es == << Event("tx_chal", ok, CHALLENGE_SIZE, challenge[d]) >>
        IN  /\ Transmit(d, challenge[d], CHALLENGE_SIZE, ok)
            /\ IF ok THEN Continue(d, es, "kx_rx_sig")
                     ELSE Return(d, es, "ATCA_TX_FAIL")
    /\ UNCHANGED << retries, priv, mem, altered, faults, console, honest, irq >>

\* verify_peer_public_key, first half:
\* if (receive_data(peer_signature, SIGNATURE_SIZE) != ATCA_SUCCESS) return ATCA_RX_FAIL;
\* and in perform_key_exchange any result but ATCA_SUCCESS becomes ATCA_FUNC_FAIL
KxReceiveSignature(d) ==
    /\ pc[d] = "kx_rx_sig"
    /\ \/ /\ RxReady(d, SIGNATURE_SIZE)
          /\ peer_signature' = [peer_signature EXCEPT ![d] = RxValue(d, SIGNATURE_SIZE)]
          /\ wire' = [wire EXCEPT ![d] = RxRest(d, SIGNATURE_SIZE)]
          /\ Continue(d, << Event("rx_sig", TRUE, SIGNATURE_SIZE, RxValue(d, SIGNATURE_SIZE)) >>,
                      "kx_verify")
          /\ altered' = Mark(d, "sig", RxValue(d, SIGNATURE_SIZE))
       \/ /\ RxFails(d, SIGNATURE_SIZE)
          /\ UNCHANGED altered
          /\ peer_signature' = [peer_signature EXCEPT ![d] = RxPartial(d, @)]
          /\ wire' = [wire EXCEPT ![d] = << >>]
          /\ Return(d, << Event("rx_sig", FALSE, SIGNATURE_SIZE, Zero) >>, "ATCA_FUNC_FAIL")
    /\ UNCHANGED << retries, priv, device_pubkey, peer_pubkey, aes_key, rx_buffer,
                    iv, challenge, peer_challenge, signature, len, encrypted, tag,
                    faults, console, honest, irq >>

\* what verify_peer_public_key returns once the signature is in: ATCA_GEN_FAIL
\* when hashing fails, ATCA_FUNC_FAIL when the key import, the curve set-up
\* or the verification fails, ATCA_SUCCESS when ret == 0 && verify_res == 1
VerifyResults(d) ==
    (IF VerifyHash(peer_signature[d], Sha256(challenge[d]), peer_pubkey[d])
     THEN {"ATCA_SUCCESS"} ELSE {"ATCA_FUNC_FAIL"})
    \cup (IF faults THEN {"ATCA_GEN_FAIL", "ATCA_FUNC_FAIL"} ELSE {})

\* verify_peer_public_key, second half, and
\* if (verify_peer_public_key() != ATCA_SUCCESS) return ATCA_FUNC_FAIL;
\* after which the run goes on at label
VerifyPeerThen(d, results, label) ==
    /\ pc[d] = "kx_verify"
    /\ \E r \in results :
        LET es == << Event("verify", r = "ATCA_SUCCESS", 0,
                           [key |-> peer_pubkey[d], hash |-> Sha256(challenge[d]),
                            sig |-> peer_signature[d], ret |-> r]) >>
        IN  IF r = "ATCA_SUCCESS" THEN Continue(d, es, label)
                                  ELSE Return(d, es, "ATCA_FUNC_FAIL")
    /\ UNCHANGED << retries, priv, mem, wire, altered, faults, console, honest, irq >>

\* the run goes on with ECDH, the peer's challenge left unanswered
KxVerifyPeer_SkipsChallenge(d) == VerifyPeerThen(d, VerifyResults(d), "kx_ecdh")

\* the result of verify_peer_public_key is not tested
KxVerifyPeer_IgnoresResult(d) ==
    /\ pc[d] = "kx_verify"
    /\ \E r \in VerifyResults(d) :
        Continue(d, << Event("verify", r = "ATCA_SUCCESS", 0,
                             [key |-> peer_pubkey[d], hash |-> Sha256(challenge[d]),
                              sig |-> peer_signature[d], ret |-> r]) >>, "kx_rx_chal")
    /\ UNCHANGED << retries, priv, mem, wire, altered, faults, console, honest, irq >>

\* return (ret == 0 && verify_res == 0) ? ATCA_SUCCESS : ATCA_FUNC_FAIL;
KxVerifyPeer_Inverted(d) ==
    VerifyPeerThen(d, IF "ATCA_SUCCESS" \in VerifyResults(d)
                      THEN {"ATCA_FUNC_FAIL"} ELSE {"ATCA_SUCCESS"}, "kx_rx_chal")

KxVerifyPeer(d) == VerifyPeerThen(d, VerifyResults(d), "kx_rx_chal")

\* if (receive_data(peer_challenge, CHALLENGE_SIZE) != ATCA_SUCCESS) return ATCA_RX_FAIL;
KxReceiveChallenge(d) ==
    /\ pc[d] = "kx_rx_chal"
    /\ \/ /\ RxReady(d, CHALLENGE_SIZE)
          /\ peer_challenge' = [peer_challenge EXCEPT ![d] = RxValue(d, CHALLENGE_SIZE)]
          /\ wire' = [wire EXCEPT ![d] = RxRest(d, CHALLENGE_SIZE)]
          /\ Continue(d, << Event("rx_chal", TRUE, CHALLENGE_SIZE, RxValue(d, CHALLENGE_SIZE)) >>,
                      "kx_sign")
          /\ altered' = Mark(d, "chal", RxValue(d, CHALLENGE_SIZE))
       \/ /\ RxFails(d, CHALLENGE_SIZE)
          /\ UNCHANGED altered
          /\ peer_challenge' = [peer_challenge EXCEPT ![d] = RxPartial(d, @)]
          /\ wire' = [wire EXCEPT ![d] = << >>]
          /\ Return(d, << Event("rx_chal", FALSE, CHALLENGE_SIZE, Zero) >>, "ATCA_RX_FAIL")
    /\ UNCHANGED << retries, priv, device_pubkey, peer_pubkey, aes_key, rx_buffer,
                    iv, challenge, peer_signature, signature, len, encrypted, tag,
                    faults, console, honest, irq >>

\* sign_message(msg, msg_len, signature): SHA-256 of the message, then
\* atcab_sign(DEVICE_KEY_SLOT, hash, signature)
SignMessage(d, msg) == Sign(priv[d], Sha256(msg))

\* if (sign_message(peer_challenge, CHALLENGE_SIZE, signature) != ATCA_SUCCESS) return ATCA_GEN_FAIL;
KxSignChallenge(d) ==
    /\ pc[d] = "kx_sign"
    /\ \E ok \in Results :
        LET sig == SignMessage(d, peer_challenge[d])
            es == << Event("sign", ok, 0, IF ok THEN sig ELSE Zero) >>
        IN  /\ signature' = IF ok THEN [signature EXCEPT ![d] = sig] ELSE signature
            /\ IF ok THEN Continue(d, es, "kx_tx_sig")
                     ELSE Return(d, es, "ATCA_GEN_FAIL")
    /\ UNCHANGED << retries, priv, device_pubkey, peer_pubkey, aes_key, rx_buffer,
                    iv, challenge, peer_challenge, peer_signature, len, encrypted,
                    tag, wire, altered, faults, console, honest, irq >>

\* if (send_data(signature, SIGNATURE_SIZE) != ATCA_SUCCESS) return ATCA_TX_FAIL;
KxSendSignature(d) ==
    /\ pc[d] = "kx_tx_sig"
    /\ \E ok \in Results :
        LET es == << Event("tx_sig", ok, SIGNATURE_SIZE, signature[d]) >>
        IN  /\ Transmit(d, signature[d], SIGNATURE_SIZE, ok)
            /\ IF ok THEN Continue(d, es, "kx_ecdh")
                     ELSE Return(d, es, "ATCA_TX_FAIL")
    /\ UNCHANGED << retries, priv, mem, altered, faults, console, honest, irq >>

\* what derive_shared_secret returns: the status of atcab_ecdh when that is
\* not ATCA_SUCCESS, ATCA_GEN_FAIL when hashing the secret fails
DeriveResults ==
    {"ATCA_SUCCESS"} \cup (IF faults THEN {"ATCA_EXECUTION_ERROR", "ATCA_GEN_FAIL"} ELSE {})

\* return derive_shared_secret();
\* aes_key is written by the memcpy that precedes return ATCA_SUCCESS only:
\* copies is the set of results with which the memcpy is reached
DeriveThenCopy(d, copies) ==
    /\ pc[d] = "kx_ecdh"
    /\ \E r \in DeriveResults :
        LET key == First16(Sha256(Ecdh(priv[d], peer_pubkey[d])))
        IN  /\ aes_key' = IF r \in copies THEN [aes_key EXCEPT ![d] = key]
                          ELSE aes_key
            /\ Return(d, << Event("ecdh", r = "ATCA_SUCCESS", 0,
                                  [key |-> peer_pubkey[d],
                                   out |-> IF r = "ATCA_SUCCESS" THEN key ELSE Zero]) >>,
                      r)
    /\ UNCHANGED << retries, priv, device_pubkey, peer_pubkey, rx_buffer, iv,
                    challenge, peer_challenge, peer_signature, signature, len,
                    encrypted, tag, wire, altered, faults, console, honest, irq >>

\* the memcpy is made before the result of the hashing is tested
DeriveSharedSecret_CopiesFirst(d) == DeriveThenCopy(d, {"ATCA_SUCCESS", "ATCA_GEN_FAIL"})

DeriveSharedSecret(d) == DeriveThenCopy(d, {"ATCA_SUCCESS"})

\* while (perform_key_exchange() != ATCA_SUCCESS) {
\*     if (++retries >= MAX_RETRIES) Error_Handler();
\*     HAL_Delay(1000);
\* }
RetryLoop(d, limit, again) ==
    /\ pc[d] = "kx_ret"
    /\ IF status[d] = "ATCA_SUCCESS"
       THEN /\ Goto(d, "msg_input")
            /\ UNCHANGED << retries, irq >>
       ELSE /\ retries' = [retries EXCEPT ![d] = @ + 1]
            /\ OrHalt(d, ~(retries[d] + 1 >= limit), again)
    /\ altered' = {}
    /\ honest' = Zero
    /\ UNCHANGED << status, priv, mem, wire, trace, faults, console >>

\* ++retries > MAX_RETRIES
RetryKeyExchange_OffByOne(d) == RetryLoop(d, MAX_RETRIES + 1, "kx_tx_pub")

\* an if in place of the while: after a failed run the program goes on
RetryKeyExchange_NoLoop(d) == RetryLoop(d, MAX_RETRIES, "msg_input")

\* the next attempt takes the run up again at its first receive
RetryKeyExchange_Resumes(d) == RetryLoop(d, MAX_RETRIES, "kx_rx_pub")

RetryKeyExchange(d) == RetryLoop(d, MAX_RETRIES, "kx_tx_pub")

(***************************************************************************)
(* main: the messaging loop                                                *)
(***************************************************************************)
\* a failed call of the loop ends in Error_Handler, a successful one goes on
\* at label
Step(d, ok, es, label) ==
    /\ OrHalt(d, ok, label)
    /\ Log(d, es)

\* receive_user_input: rx_buffer is cleared; characters are read, echoed and
\* stored until a terminator is read (and consumed) or RX_BUFFER_SIZE - 1
\* characters are stored (whatever follows them stays unread); the number
\* stored is returned.  When a HAL_UART_Receive fails, before the first or
\* after the first character, -1 is returned.
\* got: the characters stored; n: the value returned; keeps: whether the
\* characters not read stay in the console for the next call
ReadLineThen(d, typed, got, n, keeps) ==
    LET line == IF got > 0 THEN Line(typed.a, typed.off, got) ELSE Zero
        left == IF got = 0 /\ n < 0 THEN console[d]
                ELSE IF n >= 0 /\ typed.rem < RX_BUFFER_SIZE - 1 THEN NoLine
                ELSE IF keeps THEN Typed(typed.a, typed.off + got, typed.rem - got)
                ELSE NoLine
    IN  /\ rx_buffer' = [rx_buffer EXCEPT ![d] = line]
        /\ console' = [console EXCEPT ![d] = left]
        /\ len' = [len EXCEPT ![d] = n]
        /\ Goto(d, IF n <= 0 THEN "msg_input" ELSE "msg_rng")
        /\ Log(d, << Event("input", n >= 0, 0,
                           [len |-> n, line |-> line, typed |-> typed]) >>)

\* what is left of the line is read and dropped before the return
ReadLine_DropsRest(d, typed, got, n) == ReadLineThen(d, typed, got, n, FALSE)

ReadLine(d, typed, got, n) == ReadLineThen(d, typed, got, n, TRUE)

Min(a, b) == IF a <= b THEN a ELSE b

\* int len = receive_user_input(); if (len <= 0) continue;
\* what is read is the rest of a line typed before, or a new line
ReceiveUserInput(d) ==
    /\ pc[d] = "msg_input"
    /\ Count(d, "input") < MaxInputs
    /\ \E typed \in IF console[d] = NoLine
                     THEN {Typed(a, 0, n) : a \in Texts, n \in TypedLens}
                     ELSE {console[d]} :
        \/ ReadLine(d, typed, Min(typed.rem, RX_BUFFER_SIZE - 1),
                    Min(typed.rem, RX_BUFFER_SIZE - 1))
        \/ /\ faults
           /\ \E got \in {0, Min(typed.rem, 1)} : ReadLine(d, typed, got, -1)
    /\ UNCHANGED << retries, status, priv, device_pubkey, peer_pubkey, aes_key, iv,
                    challenge, peer_challenge, peer_signature, signature,
                    encrypted, tag, wire, altered, faults, honest, irq >>

\* generate_random(iv, AES_IV_SIZE);
\* stores: whether the bytes drawn are stored in iv
DrawIv(d, stores) ==
    /\ pc[d] = "msg_rng"
    /\ \E r \in Draws(Count(d, "rng_iv") + 1) :
        /\ iv' = IF stores THEN [iv EXCEPT ![d] = Data("iv", r, AES_IV_SIZE)] ELSE iv
        /\ Step(d, TRUE, << Event("rng_iv", TRUE, 0, Data("iv", r, AES_IV_SIZE)) >>, "msg_enc")
    /\ UNCHANGED << retries, status, priv, device_pubkey, peer_pubkey, aes_key,
                    rx_buffer, challenge, peer_challenge, peer_signature, signature,
                    len, encrypted, tag, wire, altered, faults, console, honest >>

\* the bytes drawn go to another buffer: iv keeps its value
GenerateIv_NotStored(d) == DrawIv(d, FALSE)

GenerateIv(d) == DrawIv(d, TRUE)

\* if (encrypt_message(rx_buffer, len, encrypted, tag) != 0) Error_Handler();
\* encrypt_message: wc_AesGcmSetKey(&aes, aes_key, ...), wc_AesGcmEncrypt(..., iv, ...)
EncryptThen(d, checked) ==
    /\ pc[d] = "msg_enc"
    /\ \E ok \in Results :
        /\ encrypted' = IF ok THEN [encrypted EXCEPT ![d] = GcmCipher(aes_key[d], iv[d], rx_buffer[d])]
                        ELSE encrypted
        /\ tag' = IF ok THEN [tag EXCEPT ![d] = GcmTag(aes_key[d], iv[d], rx_buffer[d])]
                  ELSE tag
        /\ Step(d, ok \/ ~checked, << Event("encrypt", ok, 0,
                                [key |-> aes_key[d], iv |-> iv[d], pt |-> rx_buffer[d]]) >>,
                "msg_tx_iv")
    /\ UNCHANGED << retries, status, priv, device_pubkey, peer_pubkey, aes_key,
                    rx_buffer, iv, challenge, peer_challenge, peer_signature,
                    signature, len, wire, altered, faults, console, honest >>

\* the result of encrypt_message is not tested
EncryptMessage_Unchecked(d) == EncryptThen(d, FALSE)

EncryptMessage(d) == EncryptThen(d, TRUE)

\* if (send_data(iv, AES_IV_SIZE) != ATCA_SUCCESS || ...) Error_Handler();
\* one send_data of the frame: the n bytes v
SendField(d, at, op, v, n, next) ==
    /\ pc[d] = at
    /\ \E ok \in Results :
        /\ Transmit(d, v, n, ok)
        /\ Step(d, ok, << Event(op, ok, n, v) >>, next)
    /\ UNCHANGED << retries, status, priv, mem, altered, faults, console, honest >>

SendIv(d) == SendField(d, "msg_tx_iv", "tx_iv", iv[d], AES_IV_SIZE, "msg_tx_tag")

\* ... || send_data(tag, AES_TAG_SIZE) != ATCA_SUCCESS || ...
\* (SendTag_SkipsCiphertext: the third send_data is missing)
SendTag_SkipsCiphertext(d) ==
    SendField(d, "msg_tx_tag", "tx_tag", tag[d], AES_TAG_SIZE, "msg_sign")

SendTag(d) == SendField(d, "msg_tx_tag", "tx_tag", tag[d], AES_TAG_SIZE, "msg_tx_ct")

\* ... || send_data(encrypted, len) != ATCA_SUCCESS) Error_Handler();
SendCiphertext(d) ==
    SendField(d, "msg_tx_ct", "tx_ct", encrypted[d], len[d], "msg_sign")

\* if (sign_message(rx_buffer, len, signature) != ATCA_SUCCESS) Error_Handler();
\* msg: the bytes passed to sign_message
SignFrame(d, msg) ==
    /\ pc[d] = "msg_sign"
    /\ \E ok \in Results :
        LET sig == SignMessage(d, msg)
        IN  /\ signature' = IF ok THEN [signature EXCEPT ![d] = sig] ELSE signature
            /\ Step(d, ok, << Event("msg_sign", ok, 0, IF ok THEN sig ELSE Zero) >>,
                    "msg_tx_msig")
    /\ UNCHANGED << retries, status, priv, device_pubkey, peer_pubkey, aes_key,
                    rx_buffer, iv, challenge, peer_challenge, peer_signature, len,
                    encrypted, tag, wire, altered, faults, console, honest >>

\* sign_message(encrypted, len, signature)
SignPlaintext_SignsCiphertext(d) == SignFrame(d, encrypted[d])

SignPlaintext(d) == SignFrame(d, rx_buffer[d])

\* if (send_data(signature, SIGNATURE_SIZE) != ATCA_SUCCESS) Error_Handler();
SendMessageSignature(d) ==
    SendField(d, "msg_tx_msig", "tx_msig", signature[d], SIGNATURE_SIZE, "msg_input")

(***************************************************************************)
(* The remote peer of Spec: a responder that follows the wire layout with  *)
(* the key PeerKey, behind a link on which any field may be replaced.      *)
(* Each action puts on the link what device 1 is waiting for.              *)
(***************************************************************************)
\* what can arrive for a field the peer sent as sent: the field itself,
\* and on a link that alters bytes one of the values in alt
Offered(sent, alt) == IF faults THEN {sent} \cup alt ELSE {sent}

\* the peer sent hv, and v is what arrives

Arrives(v, n, hv) ==
    /\ wire' = [wire EXCEPT ![1] = @ \o Blocks(v, n)]
    /\ honest' = hv
    /\ UNCHANGED << pc, retries, status, priv, mem, trace, irq, faults, console >>

PeerSendsPubkey ==
    /\ pc[2] = "absent" /\ pc[1] = "kx_rx_pub" /\ Waiting(1)
    /\ \E v \in Offered(Pub(PeerKey), {Pub(OtherKey), Junk}) :
        Arrives(v, PUB_KEY_SIZE, Pub(PeerKey))
    /\ UNCHANGED altered

\* the peer signs the hash of the challenge c it received, which is the
\* challenge device 1 sent unless that was replaced on the way
PeerSendsSignature ==
    /\ pc[2] = "absent" /\ pc[1] = "kx_rx_sig" /\ Waiting(1)
    /\ \E c \in Offered(challenge[1], {OtherChallenge}) :
        LET hv == Sign(PeerKey, Sha256(c))
            \* in place of the peer's signature: one made with another key,
            \* bytes that are no signature, or a signature the peer made in an
            \* earlier attempt, over the challenge of that attempt
            others == {Sign(OtherKey, Sha256(challenge[1])), Junk}
                      \cup {Sign(PeerKey, Sha256(Chal(r))) :
                                r \in Draws(Count(1, "kx_begin") - 1)}
        IN  /\ \E v \in Offered(hv, IF c = challenge[1] THEN others ELSE {}) :
                Arrives(v, SIGNATURE_SIZE, hv)
            /\ altered' = IF c # challenge[1] THEN altered \cup {"chal_out"} ELSE altered

\* the peer's own challenge, or another one in its place
PeerSendsChallenge ==
    /\ pc[2] = "absent" /\ pc[1] = "kx_rx_chal" /\ Waiting(1)
    /\ \E c \in Offered(PeerChallenge, {OtherChallenge}) :
        Arrives(c, CHALLENGE_SIZE, PeerChallenge)
    /\ UNCHANGED altered

\* 32 bytes that belong to no field arrive ahead of the field
StrayBlock ==
    /\ faults
    /\ pc[2] = "absent" /\ pc[1] \in {"kx_rx_pub", "kx_rx_sig"} /\ wire[1] = << >>
    /\ wire' = [wire EXCEPT ![1] = << [v |-> Junk, part |-> 1, of |-> 1] >>]
    /\ UNCHANGED << pc, retries, status, priv, mem, trace, irq, altered, honest, faults, console >>

(***************************************************************************)
(* Specifications                                                          *)
(***************************************************************************)
Program(d) ==
    \/ AtcabInit(d)
    \/ GenerateAndStoreKeypair(d)
    \/ KxSendPubkey(d)
    \/ KxReceivePubkey(d)
    \/ KxGenerateChallenge(d)
    \/ KxSendChallenge(d)
    \/ KxReceiveSignature(d)
    \/ KxVerifyPeer(d)
    \/ KxReceiveChallenge(d)
    \/ KxSignChallenge(d)
    \/ KxSendSignature(d)
    \/ DeriveSharedSecret(d)
    \/ RetryKeyExchange(d)
    \/ ReceiveUserInput(d)
    \/ GenerateIv(d)
    \/ EncryptMessage(d)
    \/ SendIv(d)
    \/ SendTag(d)
    \/ SendCiphertext(d)
    \/ SignPlaintext(d)
    \/ SendMessageSignature(d)

Next ==
    \/ Program(1)
    \/ PeerSendsPubkey
    \/ PeerSendsSignature
    \/ PeerSendsChallenge
    \/ StrayBlock

Spec == Init /\ [][Next]_vars

\* one step of either device; between two devices running this program the
\* steps of the run after the signature check are never taken
SymStep(d) ==
    /\ pc[d] # "absent"
    /\ Program(d)

SymNext == \E d \in Dev : SymStep(d)

SymSpec == SymInit /\ [][SymNext]_vars

\* Device 1 and a peer that answers as the responder of the wire layout:
\* it sends its public key, a valid signature over the challenge it got and
\* its own challenge, each when device 1 waits for it; no call fails and
\* the link alters nothing.  main runs on (it is the only thread and every
\* call of it returns), and the peer answers.
RespInit ==
    /\ pc = [d \in Dev |-> IF d = 1 THEN "init" ELSE "absent"]
    /\ faults = FALSE
    /\ InitMem

RespNext ==
    \/ Program(1)
    \/ PeerSendsPubkey
    \/ PeerSendsSignature
    \/ PeerSendsChallenge

RespSpec == RespInit /\ [][RespNext]_vars /\ WF_vars(RespNext)

(***************************************************************************)
(* Reading the trace                                                       *)
(***************************************************************************)
Ops(d, ops) == {i \in DOMAIN trace[d] : trace[d][i].op \in ops}
Last(S) == CHOOSE i \in S : \A j \in S : j <= i
First(S) == CHOOSE i \in S : \A j \in S : i <= j
\* where the current handshake run was entered (0: no run yet) and where it
\* returned (past the end of the trace: it has not returned)
RunBegin(d) ==
    LET begins == Ops(d, {"kx_begin"})
    IN  IF begins = {} THEN 0 ELSE Last(begins)
RunEnd(d) ==
    LET b == RunBegin(d)
        ends == {i \in b + 1 .. Len(trace[d]) : trace[d][i].op = "kx_end"}
    IN  IF b = 0 \/ ends = {} THEN Len(trace[d]) + 1 ELSE First(ends)
\* the calls of the current run, from its entry to its return
Run(d) ==
    LET b == RunBegin(d)
    IN  IF b = 0 THEN << >> ELSE SubSeq(trace[d], b + 1, RunEnd(d) - 1)
Returned(d) == RunBegin(d) > 0 /\ RunEnd(d) <= Len(trace[d])
\* a run has returned ATCA_SUCCESS
Established(d) == \E i \in Ops(d, {"kx_end"}) : trace[d][i].ok
FailedRuns(d) == Cardinality({i \in Ops(d, {"kx_end"}) : ~trace[d][i].ok})

MsgOps == {"input", "rng_iv", "encrypt", "tx_iv", "tx_tag", "tx_ct", "msg_sign", "tx_msig"}
HsPcs == {"kx_tx_pub", "kx_rx_pub", "kx_rng", "kx_tx_chal", "kx_rx_sig", "kx_verify",
          "kx_rx_chal", "kx_sign", "kx_tx_sig", "kx_ecdh"}
MsgPcs == {"msg_input", "msg_rng", "msg_enc", "msg_tx_iv", "msg_tx_tag", "msg_tx_ct",
           "msg_sign", "msg_tx_msig"}
\* the current run has returned ATCA_SUCCESS
RunSucceeded(d) == Returned(d) /\ trace[d][RunEnd(d)].ok
\* a call of the messaging loop whose failure leads to Error_Handler has failed
MsgCallFailed(d) == \E i \in Ops(d, MsgOps \ {"input"}) : ~trace[d][i].ok
\* Error_Handler has been entered: __disable_irq() was executed
Halted(d) == ~irq[d]
\* the call made k calls before call i was op, and it succeeded
Prev(d, i, k, op) == i > k /\ trace[d][i - k].op = op /\ trace[d][i - k].ok

(***************************************************************************)
(* C1: in every handshake run the calls are made in the fixed order send   *)
(* public key (64 B), receive peer public key (64 B), draw and send the    *)
(* challenge (32 B), receive the peer signature (64 B) and verify it       *)
(* against the hash of that challenge with the key received, receive the   *)
(* peer challenge (32 B), sign its hash and send the signature (64 B),     *)
(* ECDH; none is skipped or reordered, each is made only after all the     *)
(* earlier ones succeeded, and a run returns success only after all ten.   *)
(***************************************************************************)
C1_HandshakeOrder ==
    \A d \in Dev :
        LET r == Run(d)
            m == Len(r)
        IN  /\ m <= Len(HsOrder)
            /\ \A i \in 1 .. m :
                /\ r[i].op = HsOrder[i]
                /\ r[i].n = HsBytes[i]
                /\ i < m => r[i].ok
            /\ m >= 1 => r[1].v = device_pubkey[d]
            /\ m >= 4 => r[4].v = r[3].v
            /\ m >= 6 => /\ r[6].v.key = r[2].v
                         /\ r[6].v.sig = r[5].v
                         /\ r[6].v.hash = Sha256(r[3].v)
            /\ (m >= 8 /\ r[8].ok) => r[8].v = Sign(priv[d], Sha256(r[7].v))
            /\ m >= 9 => r[9].v = r[8].v
            /\ Returned(d) =>
                /\ m >= 1
                /\ trace[d][RunEnd(d)].ok = (m = Len(HsOrder) /\ r[m].ok)
                /\ ~trace[d][RunEnd(d)].ok => ~r[m].ok
            /\ (RunBegin(d) > 0 /\ ~Returned(d)) =>
                /\ m >= 1 /\ r[m].ok
                /\ m < Len(HsOrder)

\* a run that made all ten calls and returned success
C1_Witness ==
    /\ Returned(1)
    /\ trace[1][RunEnd(1)].ok
    /\ Len(Run(1)) = Len(HsOrder)
    /\ pc[1] = "kx_ret"

(***************************************************************************)
(* C2: two devices running the handshake against each other over a         *)
(* lossless, in-order, buffered link, with no failing call, both reach     *)
(* Established with the same session key: neither gives up and halts, and  *)
(* when both have a key the two keys are equal.                            *)
(***************************************************************************)
C2_SymmetricHandshakeEstablishes ==
    /\ \A d \in Dev : pc[d] # "halted"
    /\ (\A d \in Dev : Established(d)) => aes_key[1] = aes_key[2]

\* both devices have halted after MAX_RETRIES failed runs each
C2_Witness ==
    \A d \in Dev :
        /\ pc[d] = "halted"
        /\ FailedRuns(d) = MAX_RETRIES
        /\ ~Established(d)
        /\ aes_key[d] = Zero

\* What happens instead: each device sends its key and its challenge and then
\* waits for a signature that the other, waiting for one too, never makes;
\* no run gets past the receive of the peer signature with a valid one.
SymNeverVerified ==
    \A d \in Dev :
        /\ ~Established(d)
        /\ pc[d] \notin {"kx_rx_chal", "kx_sign", "kx_tx_sig", "kx_ecdh"} \cup MsgPcs

(***************************************************************************)
(* C3: when exactly one handshake field of a run is altered in transit     *)
(* (the peer public key, the peer signature or the peer challenge on the   *)
(* way to device 1, or the challenge device 1 sent), the run of device 1   *)
(* does not return success.                                                *)
(***************************************************************************)
C3_AnyAlteredFieldFails ==
    ~(Cardinality(altered) = 1 /\ RunSucceeded(1))

\* the peer challenge was replaced on the way to device 1, which signed the
\* replacement and whose run returned ATCA_SUCCESS with a session key
C3_Witness ==
    /\ altered = {"chal"}
    /\ RunSucceeded(1)
    /\ peer_challenge[1] = OtherChallenge
    /\ signature[1] = Sign(priv[1], Sha256(OtherChallenge))
    /\ status[1] = "ATCA_SUCCESS"
    /\ aes_key[1] # Zero

\* The part of C3 that holds: when exactly one field is altered and it is the
\* peer public key, the peer signature or the challenge device 1 sent, the run
\* of device 1 never gets past the signature check and does not return
\* success: once the check is made, perform_key_exchange returns
\* ATCA_FUNC_FAIL.
AlteredKeySignatureOrOwnChallengeFails ==
    (Cardinality(altered) = 1 /\ altered # {"chal"}) =>
        /\ ~RunSucceeded(1)
        /\ pc[1] \notin {"kx_rx_chal", "kx_sign", "kx_tx_sig", "kx_ecdh"}
        /\ (Returned(1) /\ Len(Run(1)) >= 6) =>
            /\ ~Run(1)[6].ok
            /\ trace[1][RunEnd(1)].v.status = "ATCA_FUNC_FAIL"

\* the challenge device 1 sent was replaced, the peer signed what it got, and
\* the check of that signature failed
AlteredOwnChallengeDetected ==
    /\ altered = {"chal_out"}
    /\ Returned(1)
    /\ Len(Run(1)) = 6
    /\ Run(1)[5].v = Sign(PeerKey, Sha256(OtherChallenge))
    /\ Run(1)[6].v.ret = "ATCA_FUNC_FAIL"
    /\ status[1] = "ATCA_FUNC_FAIL"

(***************************************************************************)
(* C4: handshake and messaging are exclusive and ordered: no console read, *)
(* no nonce, encryption, frame field or message signature before a         *)
(* handshake run has returned success, and no call of a handshake run      *)
(* after one has, or after any call of the messaging loop.                 *)
(***************************************************************************)
C4_PhasesExclusive ==
    \A d \in Dev :
        /\ \A i \in Ops(d, MsgOps) :
            \E j \in Ops(d, {"kx_end"}) : j < i /\ trace[d][j].ok
        /\ \A i \in Ops(d, HsOps \cup {"kx_begin"}) :
            \A j \in 1 .. i - 1 :
                /\ trace[d][j].op \notin MsgOps
                /\ ~(trace[d][j].op = "kx_end" /\ trace[d][j].ok)
        /\ pc[d] \in MsgPcs => Established(d)
        /\ pc[d] \in HsPcs => ~Established(d) /\ Ops(d, MsgOps) = {}

\* a whole frame has gone out after a failed and a successful run
C4_Witness ==
    /\ FailedRuns(1) >= 1
    /\ \E i \in Ops(1, {"tx_msig"}) : trace[1][i].ok
    /\ pc[1] = "msg_input"

(***************************************************************************)
(* C5: aes_key is written only by the last step of a handshake run in      *)
(* which every earlier step succeeded and which returns success; until     *)
(* then it keeps its initial value through failed runs, it does not change *)
(* in the messaging loop, and every AEAD encryption uses that key.         *)
(***************************************************************************)
C5_SessionKeyFromSuccessfulRun ==
    \A d \in Dev :
        LET oks == {i \in Ops(d, {"ecdh"}) : trace[d][i].ok}
        IN  /\ Cardinality(oks) <= 1
            /\ aes_key[d] = IF oks = {} THEN Zero ELSE trace[d][Last(oks)].v.out
            /\ \A i \in oks :
                /\ i = RunBegin(d) + Len(HsOrder)
                /\ \A k \in 1 .. Len(HsOrder) : trace[d][RunBegin(d) + k].ok
                /\ trace[d][i + 1].op = "kx_end" /\ trace[d][i + 1].ok
                /\ trace[d][i].v.out # Zero
            /\ \A i \in Ops(d, {"encrypt"}) :
                /\ oks # {}
                /\ Last(oks) < i
                /\ trace[d][i].v.key = trace[d][Last(oks)].v.out

\* an encryption after a failed run (that got to its last step) and a
\* successful one
C5_Witness ==
    /\ FailedRuns(1) >= 1
    /\ \E i \in Ops(1, {"encrypt"}) : trace[1][i].ok /\ trace[1][i].v.key = aes_key[1]
    /\ aes_key[1] # Zero

(***************************************************************************)
(* C6: ECDH is invoked only in a run whose check of the peer signature     *)
(* succeeded: the signature received in that run is valid for the hash of  *)
(* the challenge drawn in that run under the peer public key received in   *)
(* that run, and ECDH gets that same key.  A failed check ends the run     *)
(* with no ECDH.                                                           *)
(***************************************************************************)
C6_EcdhAfterVerification ==
    \A d \in Dev :
        /\ \A i \in Ops(d, {"ecdh"}) :
            \E j \in Ops(d, {"verify"}), c \in Ops(d, {"rng_chal"}),
               s \in Ops(d, {"rx_sig"}) :
                /\ RunBegin(d) < c /\ c < s /\ s < j /\ j < i
                /\ trace[d][j].ok
                /\ trace[d][j].v.key = trace[d][i].v.key
                /\ trace[d][j].v.sig = trace[d][s].v
                /\ trace[d][j].v.hash = Sha256(trace[d][c].v)
                /\ VerifyHash(trace[d][s].v, Sha256(trace[d][c].v), trace[d][i].v.key)
        /\ \A j \in Ops(d, {"verify"}) :
            ~trace[d][j].ok =>
                /\ Len(trace[d]) = j + 1
                /\ trace[d][j + 1].op = "kx_end"
                /\ ~trace[d][j + 1].ok

\* ECDH has run, on the key that passed the check
C6_Witness ==
    /\ \E i \in Ops(1, {"ecdh"}) : trace[1][i].ok /\ trace[1][i].v.key = peer_pubkey[1]
    /\ pc[1] = "kx_ret"
    /\ FailedRuns(1) = 0

(***************************************************************************)
(* C7: at most MAX_RETRIES handshake runs are made per boot.  After k <    *)
(* MAX_RETRIES failed runs and a successful one the program is in the      *)
(* messaging loop (it halts there only on a failed call of the loop);      *)
(* after MAX_RETRIES failed runs it halts, and only then does it halt in   *)
(* the handshake phase.                                                    *)
(***************************************************************************)
C7_BoundedRetries ==
    \A d \in Dev :
        /\ Cardinality(Ops(d, {"kx_begin"})) <= MAX_RETRIES
        /\ FailedRuns(d) <= MAX_RETRIES
        /\ retries[d] = IF pc[d] = "kx_ret" /\ status[d] # "ATCA_SUCCESS"
                        THEN FailedRuns(d) - 1 ELSE FailedRuns(d)
        /\ Established(d) =>
            /\ FailedRuns(d) < MAX_RETRIES
            /\ \/ pc[d] \in MsgPcs \cup {"kx_ret"}
               \/ pc[d] = "halted" /\ MsgCallFailed(d)
        /\ FailedRuns(d) = MAX_RETRIES => pc[d] \in {"kx_ret", "halted"}
        /\ (pc[d] = "halted" /\ Ops(d, {"kx_begin"}) # {} /\ ~Established(d))
            => FailedRuns(d) = MAX_RETRIES
        /\ (pc[d] \in HsPcs /\ Ops(d, {"kx_begin"}) # {}) => FailedRuns(d) < MAX_RETRIES

\* MAX_RETRIES - 1 failed runs, then a successful one, and the loop is entered
C7_Witness ==
    /\ FailedRuns(1) = MAX_RETRIES - 1
    /\ Established(1)
    /\ pc[1] = "msg_input"
    /\ irq[1]

(***************************************************************************)
(* C8: once Error_Handler has been entered (interrupts are off) the        *)
(* program stays there: no call is made any more (the trace and the link   *)
(* stay as they are), no buffer changes, and the state is never left.      *)
(***************************************************************************)
C8_HaltedIsTerminal ==
    [][\A d \in Dev :
        Halted(d) =>
            /\ pc[d] = "halted" /\ pc'[d] = "halted"
            /\ ~irq'[d]
            /\ trace'[d] = trace[d]
            /\ wire'[Peer(d)] = wire[Peer(d)]
            /\ aes_key'[d] = aes_key[d] /\ retries'[d] = retries[d]
            /\ iv'[d] = iv[d] /\ rx_buffer'[d] = rx_buffer[d]]_vars

\* halted after MAX_RETRIES failed runs
C8_Witness ==
    /\ Halted(1)
    /\ pc[1] = "halted"
    /\ FailedRuns(1) = MAX_RETRIES

(***************************************************************************)
(* C9: the fields of a frame go out in the order nonce (12 B), tag (16 B), *)
(* ciphertext (as long as the line read), signature (64 B), each only      *)
(* after every earlier one went out, and the next line is read only after  *)
(* all four did.                                                           *)
(***************************************************************************)
C9_FrameOrder ==
    \A d \in Dev : \A i \in DOMAIN trace[d] :
        LET e == trace[d][i]
        IN  /\ e.op = "tx_iv" =>
                /\ e.n = AES_IV_SIZE
                /\ Prev(d, i, 1, "encrypt") /\ Prev(d, i, 2, "rng_iv")
                /\ Prev(d, i, 3, "input") /\ trace[d][i - 3].v.len > 0
            /\ e.op = "tx_tag" => e.n = AES_TAG_SIZE /\ Prev(d, i, 1, "tx_iv")
            /\ e.op = "tx_ct" =>
                /\ Prev(d, i, 1, "tx_tag") /\ Prev(d, i, 2, "tx_iv")
                /\ Prev(d, i, 5, "input") /\ e.n = trace[d][i - 5].v.len
            /\ e.op = "tx_msig" =>
                /\ e.n = SIGNATURE_SIZE
                /\ Prev(d, i, 1, "msg_sign") /\ Prev(d, i, 2, "tx_ct")
                /\ Prev(d, i, 3, "tx_tag") /\ Prev(d, i, 4, "tx_iv")
            /\ (e.op = "input" /\ i > 1) =>
                \/ trace[d][i - 1].op = "kx_end" /\ trace[d][i - 1].ok
                \/ trace[d][i - 1].op = "input" /\ trace[d][i - 1].v.len <= 0
                \/ Prev(d, i, 1, "tx_msig")

\* a second line is read after a whole frame
C9_Witness ==
    \E i \in Ops(1, {"input"}) :
        /\ i > 8
        /\ trace[1][i - 1].op = "tx_msig" /\ trace[1][i - 1].ok
        /\ trace[1][i - 8].op = "input" /\ trace[1][i - 5].op = "tx_iv"

(***************************************************************************)
(* C10: a failed call of the messaging loop (the encryption, one of the    *)
(* four sends, the signing) is the last call the program makes: it is in   *)
(* Error_Handler at once, nothing more of the frame is sent, no line is    *)
(* read, no handshake is run again.  When the encryption fails nothing of  *)
(* the frame has been sent.                                                *)
(***************************************************************************)
C10_MessagingFailStop ==
    \A d \in Dev : \A i \in Ops(d, MsgOps \ {"input"}) :
        ~trace[d][i].ok =>
            /\ i = Len(trace[d])
            /\ pc[d] = "halted"
            /\ Halted(d)
            /\ trace[d][i].op = "encrypt" =>
                /\ trace[d][i - 1].op = "rng_iv"
                /\ trace[d][i - 2].op = "input"

\* the send of the ciphertext failed after nonce and tag went out
C10_Witness ==
    /\ Len(trace[1]) > 0
    /\ trace[1][Len(trace[1])].op = "tx_ct"
    /\ ~trace[1][Len(trace[1])].ok
    /\ pc[1] = "halted"

(***************************************************************************)
(* C11: a line of RX_BUFFER_SIZE (128) characters typed at the console is  *)
(* rejected: the read that meets it is followed by no nonce draw (and so   *)
(* by no encryption, signing or send) for it.                              *)
(***************************************************************************)
C11_Line128Rejected ==
    \A d \in Dev : \A i \in Ops(d, {"input"}) :
        (trace[d][i].v.typed.off = 0 /\ trace[d][i].v.typed.rem = RX_BUFFER_SIZE) =>
            /\ trace[d][i].v.len <= 0
            /\ i < Len(trace[d]) => trace[d][i + 1].op # "rng_iv"

\* a line of 128 characters was typed, its first 127 characters went out
\* encrypted, and its last character is still to be read
C11_Witness ==
    \E i \in Ops(1, {"tx_ct"}) :
        /\ trace[1][i].ok
        /\ trace[1][i].n = RX_BUFFER_SIZE - 1
        /\ trace[1][i].v.pt = Line(1, 0, RX_BUFFER_SIZE - 1)
        /\ trace[1][i - 5].op = "input"
        /\ trace[1][i - 5].v.typed = Typed(1, 0, RX_BUFFER_SIZE)
        /\ console[1] = Typed(1, RX_BUFFER_SIZE - 1, 1)

(***************************************************************************)
(* C12: every frame carries the nonce drawn for it: the nonce sent is the  *)
(* value generate_random returned after the line was read and before the   *)
(* encryption, which used it, and it is not the all-zero initial value.    *)
(* So when the generator returns a different value on every draw, no two   *)
(* frames (all under the one session key) carry the same nonce.            *)
(***************************************************************************)
C12_FreshNoncePerFrame ==
    \A d \in Dev :
        LET draws == Ops(d, {"rng_iv"})
            sends == Ops(d, {"tx_iv"})
        IN  /\ \A i \in sends :
                /\ i > 3
                /\ trace[d][i - 3].op = "input"
                /\ trace[d][i - 2].op = "rng_iv"
                /\ trace[d][i - 1].op = "encrypt"
                /\ trace[d][i - 1].v.iv = trace[d][i - 2].v
                /\ trace[d][i - 1].v.key = aes_key[d]
                /\ trace[d][i].v = trace[d][i - 2].v
                /\ trace[d][i].v # Zero
            /\ (\A j, k \in draws : j # k => trace[d][j].v # trace[d][k].v) =>
                (\A j, k \in sends : j # k => trace[d][j].v # trace[d][k].v)

\* two frames have been sent, with two different nonces
C12_Witness ==
    \E j, k \in Ops(1, {"tx_iv"}) :
        /\ j < k
        /\ trace[1][j].ok /\ trace[1][k].ok
        /\ trace[1][j].v # trace[1][k].v
        /\ trace[1][k].v = iv[1]

(***************************************************************************)
(* C13: what a failed run returns tells the kind of failure: ATCA_TX_FAIL  *)
(* when a send failed, ATCA_RX_FAIL when a receive failed or timed out     *)
(* (the receive of the peer signature included), and ATCA_FUNC_FAIL only   *)
(* when the signature verification, the key import or the curve set-up     *)
(* failed.                                                                 *)
(***************************************************************************)
C13_ErrorKindIdentifiesFailure ==
    \A d \in Dev :
        (Returned(d) /\ ~RunSucceeded(d)) =>
            LET last == Run(d)[Len(Run(d))]
                code == trace[d][RunEnd(d)].v.status
            IN  /\ last.op \in {"tx_pub", "tx_chal", "tx_sig"} => code = "ATCA_TX_FAIL"
                /\ last.op \in {"rx_pub", "rx_sig", "rx_chal"} => code = "ATCA_RX_FAIL"
                /\ code = "ATCA_FUNC_FAIL" =>
                    last.op = "verify" /\ last.v.ret = "ATCA_FUNC_FAIL"

\* the receive of the peer signature failed and the run returned
\* ATCA_FUNC_FAIL
C13_Witness ==
    /\ Returned(1)
    /\ Len(Run(1)) = 5
    /\ Run(1)[5].op = "rx_sig" /\ ~Run(1)[5].ok
    /\ trace[1][RunEnd(1)].v.status = "ATCA_FUNC_FAIL"
    /\ status[1] = "ATCA_FUNC_FAIL"

(***************************************************************************)
(* C14: in every frame sent completely, the signature is one made with the *)
(* key in DEVICE_KEY_SLOT (the key of device_pubkey) over the SHA-256 hash *)
(* of the line read, the ciphertext and the tag are those of the           *)
(* encryption of that same line under the nonce sent, and the nonce is the *)
(* one that encryption used.                                               *)
(***************************************************************************)
C14_FrameSignsItsPlaintext ==
    \A d \in Dev : \A i \in Ops(d, {"tx_msig"}) :
        trace[d][i].ok =>
            LET pt == trace[d][i - 7].v.line
                enc == trace[d][i - 5].v
            IN  /\ trace[d][i - 7].op = "input"
                /\ trace[d][i - 5].op = "encrypt"
                /\ enc.pt = pt
                /\ pt = Line(pt.a, pt.off, trace[d][i - 2].n)
                /\ trace[d][i - 4].op = "tx_iv" /\ trace[d][i - 4].v = enc.iv
                /\ trace[d][i - 3].op = "tx_tag"
                /\ trace[d][i - 3].v = GcmTag(enc.key, enc.iv, pt)
                /\ trace[d][i - 2].op = "tx_ct"
                /\ trace[d][i - 2].v = GcmCipher(enc.key, enc.iv, pt)
                /\ trace[d][i - 1].op = "msg_sign"
                /\ trace[d][i].v = trace[d][i - 1].v
                /\ trace[d][i].v = Sign(priv[d], Sha256(pt))
                /\ VerifyHash(trace[d][i].v, Sha256(pt), device_pubkey[d])

\* a frame with a line of RX_BUFFER_SIZE - 1 characters has gone out whole
C14_Witness ==
    \E i \in Ops(1, {"tx_msig"}) :
        /\ trace[1][i].ok
        /\ trace[1][i].v = Sign(DeviceKey(1, 1), Sha256(Line(1, 0, RX_BUFFER_SIZE - 1)))
        /\ rx_buffer[1] = Line(1, 0, RX_BUFFER_SIZE - 1)
        /\ pc[1] = "msg_input"

(***************************************************************************)
(* C15: the key pair is generated once per boot, before anything goes over *)
(* the link: at most one atcab_genkey is made, only atcab_init comes       *)
(* before it, every handshake run sends the public key it returned, and    *)
(* every signature (of a challenge, of a line) is made with its private    *)
(* key; when it fails the program halts, having sent and received nothing. *)
(***************************************************************************)
C15_KeyPairGeneratedOnce ==
    \A d \in Dev :
        LET gens == Ops(d, {"genkey"})
        IN  /\ Cardinality(gens) <= 1
            /\ \A g \in gens :
                /\ g = 2 /\ trace[d][1].op = "atcab_init"
                /\ trace[d][g].ok =>
                    /\ device_pubkey[d] = trace[d][g].v
                    /\ priv[d] = PrivOf(trace[d][g].v)
                    /\ priv[d] = DeviceKey(d, 1)
                /\ ~trace[d][g].ok =>
                    /\ Len(trace[d]) = g
                    /\ pc[d] = "halted"
                    /\ wire[Peer(d)] = << >>
            /\ \A i \in DOMAIN trace[d] :
                trace[d][i].op \notin {"atcab_init", "genkey"} =>
                    /\ gens # {} /\ i > 2 /\ trace[d][2].ok
                    /\ trace[d][i].op = "tx_pub" => trace[d][i].v = trace[d][2].v
                    /\ (trace[d][i].op \in {"sign", "msg_sign"} /\ trace[d][i].ok) =>
                        /\ trace[d][i].v.t = "sig"
                        /\ trace[d][i].v.k = PrivOf(trace[d][2].v)

\* the third run sends the public key generated at boot, and it is still
\* the key that signs
C15_Witness ==
    /\ FailedRuns(1) = MAX_RETRIES - 1
    /\ Len(Run(1)) >= 8
    /\ Run(1)[1].op = "tx_pub" /\ Run(1)[1].v = Pub(DeviceKey(1, 1))
    /\ Run(1)[8].op = "sign" /\ Run(1)[8].ok
    /\ Run(1)[8].v.k = DeviceKey(1, 1)

(***************************************************************************)
(* C16: the session key is destroyed when the session ends: once the       *)
(* program is in Error_Handler after a failed call of the messaging loop,  *)
(* aes_key no longer holds the key the handshake derived.                  *)
(***************************************************************************)
C16_SessionKeyDestroyedOnHalt ==
    \A d \in Dev :
        (Halted(d) /\ MsgCallFailed(d)) =>
            \A i \in Ops(d, {"ecdh"}) : trace[d][i].ok => aes_key[d] # trace[d][i].v.out

\* halted after a failed send of a frame signature, aes_key still holding
\* the session key the frame was encrypted under
C16_Witness ==
    /\ Halted(1)
    /\ pc[1] = "halted"
    /\ trace[1][Len(trace[1])].op = "tx_msig"
    /\ ~trace[1][Len(trace[1])].ok
    /\ aes_key[1] = First16(Sha256(Ecdh(DeviceKey(1, 1), Pub(PeerKey))))
    /\ encrypted[1].key = aes_key[1]

(***************************************************************************)
(* C17: a failed call of a handshake run ends the run: the return of       *)
(* perform_key_exchange, with an error, is what follows it; no call is     *)
(* made twice in a run; and after a failed run the only thing main does,   *)
(* short of halting, is to enter perform_key_exchange again, which starts  *)
(* with the send of the public key.                                        *)
(***************************************************************************)
C17_FailureAbortsRun ==
    \A d \in Dev :
        /\ \A i \in Ops(d, HsOps) :
            ~trace[d][i].ok =>
                /\ i < Len(trace[d])
                /\ trace[d][i + 1].op = "kx_end"
                /\ ~trace[d][i + 1].ok
                /\ trace[d][i + 1].v.status # "ATCA_SUCCESS"
        /\ LET r == Run(d)
           IN  \A i, j \in DOMAIN r : i # j => r[i].op # r[j].op
        /\ \A i \in Ops(d, {"kx_end"}) :
            (~trace[d][i].ok /\ i < Len(trace[d])) =>
                /\ trace[d][i + 1].op = "kx_begin"
                /\ i + 1 < Len(trace[d])
                /\ i + 1 = RunBegin(d) => trace[d][i + 2].op = "tx_pub"
        /\ (Returned(d) /\ ~RunSucceeded(d)) => pc[d] \in {"kx_ret", "kx_tx_pub", "halted"}

\* the first run failed at the receive of the peer challenge, its seventh
\* call, and main is about to run perform_key_exchange again
C17_Witness ==
    /\ Returned(1)
    /\ Len(Run(1)) = 7
    /\ Run(1)[7].op = "rx_chal" /\ ~Run(1)[7].ok
    /\ status[1] = "ATCA_RX_FAIL"
    /\ retries[1] = 1
    /\ pc[1] = "kx_tx_pub"

(***************************************************************************)
(* C18: every handshake run draws its own challenge, after the two public  *)
(* keys were exchanged, and sends what it drew; the peer signature is      *)
(* checked against the hash of the challenge of this run, so a signature   *)
(* over any other challenge (that of an earlier attempt, when the          *)
(* generator does not repeat itself) does not pass.                        *)
(***************************************************************************)
C18_FreshChallengePerAttempt ==
    \A d \in Dev :
        LET r == Run(d)
            m == Len(r)
        IN  /\ m >= 3 =>
                /\ r[1].op = "tx_pub" /\ r[2].op = "rx_pub" /\ r[3].op = "rng_chal"
                /\ r[3].v.t = "chal"
                /\ challenge[d] = r[3].v
            /\ m >= 4 => r[4].op = "tx_chal" /\ r[4].v = r[3].v
            /\ m >= 6 =>
                /\ r[6].op = "verify"
                /\ r[6].v.hash = Sha256(r[3].v)
                /\ (r[5].v.t = "sig" /\ r[5].v.h # Sha256(r[3].v)) => ~r[6].ok
                /\ r[6].ok => r[5].v.h = Sha256(r[3].v)
            /\ pc[d] \in {"kx_tx_chal", "kx_rx_sig", "kx_verify"} => m >= 3

\* the second attempt drew a new challenge and got the peer's signature over
\* the challenge of the first: the check failed
C18_Witness ==
    /\ FailedRuns(1) = 2
    /\ Returned(1)
    /\ Len(Run(1)) = 6
    /\ Run(1)[3].v = Chal(2)
    /\ Run(1)[5].v = Sign(PeerKey, Sha256(Chal(1)))
    /\ ~Run(1)[6].ok
    /\ Cardinality(Ops(1, {"kx_begin"})) = 2

(***************************************************************************)
(* C19: with a peer that answers as the responder of the wire layout and   *)
(* no failing call, the first handshake run returns ATCA_SUCCESS and main  *)
(* gets to the messaging loop: no run fails, retries stays 0, perform_key_ *)
(* exchange is entered once, and the program does not halt.                *)
(***************************************************************************)
C19_ResponderPeerEstablishesAtOnce ==
    /\ <>(pc[1] = "msg_input" /\ Established(1))
    /\ [](/\ FailedRuns(1) = 0
          /\ retries[1] = 0
          /\ Cardinality(Ops(1, {"kx_begin"})) <= 1
          /\ pc[1] # "halted")

\* the messaging loop is entered after one run, with the key shared with
\* the peer
C19_Witness ==
    /\ pc[1] = "msg_input"
    /\ Established(1)
    /\ Cardinality(Ops(1, {"kx_begin"})) = 1
    /\ retries[1] = 0
    /\ status[1] = "ATCA_SUCCESS"
    /\ aes_key[1] = First16(Sha256(Ecdh(PeerKey, Pub(DeviceKey(1, 1)))))

====
